---- MODULE Spec2Model ----
(***************************************************************************)
(* Model of the crawl-and-extract engine of advance-email-scraper:         *)
(*   src/advanced_email_v3.py  KingHarvester                               *)
(*   src/email_harvester.py    NexusHarvester                              *)
(*   src/appv0.1.py            EliteHarvester                              *)
(* The three harvesters share one scheduler (crawl / _worker /             *)
(* scrape_page); the variable `variant` says which one is running.         *)
(*                                                                         *)
(* asyncio runs every coroutine on one thread: a task gives up control     *)
(* only at an await that really suspends. Each action below is one such    *)
(* uninterrupted stretch of code, from one suspension to the next.         *)
(*                                                                         *)
(* Strings whose characters the code inspects (e-mail addresses, netlocs)  *)
(* are sequences of one-character strings; other strings are TLA+ strings. *)
(***************************************************************************)
EXTENDS Naturals, Integers, Sequences, FiniteSets, TLC

VARIABLES
  variant,     \* "King" | "Nexus" | "Elite": the harvester class in use
  crawlpc,     \* position of main()/crawl(): "run", "returned", "closed"
  queue,       \* crawl()'s deque of URLs (the frontier)
  tasks,       \* crawl()'s set `tasks`
  task,        \* per task: its position and locals
  visited,     \* self.visited
  documents,   \* self.documents
  pages,       \* self.pages
  profiles,    \* self.profiles (King) / self.emails (Nexus, Elite)
  browser,     \* self.browser: 0 is None, else the instance it refers to
  launched,    \* history: number of chromium.launch() calls completed
  fetchCount,  \* history: per URL, how often it passed the check of scrape_page
  enqueued,    \* history: every URL ever put on the page frontier
  downloadCount, \* history: per document URL, how often its download was started
  sIn,         \* scope-filter check: the input string
  sBase,       \* scope-filter check: the base domain
  sOut,        \* scope-filter check: the answers, once asked
  fetch,       \* one fetch of one URL in detail: its position and locals
  doc,         \* the doc-link loop of one page in detail: position, locals, files
  cls,         \* the record creation of one page in detail: inputs and store
  disc         \* one call of discover_subdomains in detail: position, result

vars == <<variant, crawlpc, queue, tasks, task, visited, documents, pages,
          profiles, browser, launched, fetchCount, enqueued, downloadCount,
          sIn, sBase, sOut, fetch, doc, cls, disc>>

crawlVars == <<variant, crawlpc, queue, tasks, task, visited, documents, pages,
               profiles, browser, launched, fetchCount, enqueued,
               downloadCount>>

scopeVars == <<sIn, sBase, sOut>>

\* what the scheduler's actions leave alone: the variables of the detailed
\* views of one scope test, one fetch, one doc-link loop, one page's record
\* creation and one subdomain discovery
sideVars == <<scopeVars, fetch, doc, cls, disc>>

(***************************************************************************)
(* Bounds of the model.  MAX_PAGES and CONCURRENT are the program's        *)
(* configuration constants (1000/800/500 and 25/20/15 in the three files), *)
(* scaled down.                                                            *)
(***************************************************************************)
MAX_PAGES == 3

CONCURRENT == 2

MaxLen == 5

----------------------------------------------------------------------------
(* Character strings *)

\* the upper-case letters and their lower-case forms
ToLower ==
  [A |-> "a", B |-> "b", C |-> "c", D |-> "d", E |-> "e", F |-> "f", G |-> "g",
   H |-> "h", I |-> "i", J |-> "j", K |-> "k", L |-> "l", M |-> "m", N |-> "n",
   O |-> "o", P |-> "p", Q |-> "q", R |-> "r", S |-> "s", T |-> "t", U |-> "u",
   V |-> "v", W |-> "w", X |-> "x", Y |-> "y", Z |-> "z"]

\* str.lower() on one character
lowerChar(c) == IF c \in DOMAIN ToLower THEN ToLower[c] ELSE c

\* str.lower()
lower(s) == [i \in 1..Len(s) |-> lowerChar(s[i])]

\* str.endswith(suffix)
endswith(s, suffix) ==
  /\ Len(suffix) <= Len(s)
  /\ SubSeq(s, Len(s) - Len(suffix) + 1, Len(s)) = suffix

\* str.startswith(prefix)
startswith(s, prefix) ==
  /\ Len(prefix) <= Len(s)
  /\ SubSeq(s, 1, Len(prefix)) = prefix

\* position of the last occurrence of character c in s, 0 if there is none
rfind(s, c) ==
  IF \E i \in 1..Len(s) : s[i] = c
  THEN CHOOSE i \in 1..Len(s) : s[i] = c /\ \A j \in (i+1)..Len(s) : s[j] # c
  ELSE 0

\* s.rsplit(c, 1)[1], for s that contains c: what follows the last c
afterLast(s, c) == SubSeq(s, rfind(s, c) + 1, Len(s))

----------------------------------------------------------------------------
(* Domain scope filter *)

\* the host rule with the dot left out of the suffix
hostInScopeNoDot(domain, base) == domain = base \/ endswith(domain, base)

\* domain == self.base_domain or domain.endswith('.' + self.base_domain)
hostInScope(domain, base) ==
  domain = base \/ endswith(domain, <<".">> \o base)

\* is_target_domain(email) of the three files
is_target_domain(email, base) ==
  IF ~ (\E i \in 1..Len(email) : email[i] = "@")
  THEN FALSE
  ELSE hostInScope(afterLast(lower(email), "@"), lower(base))

----------------------------------------------------------------------------
(* URLs: urllib.parse on the URL shapes that occur in the model *)

Https == <<"h","t","t","p","s",":","/","/">>

Http == <<"h","t","t","p",":","/","/">>

\* index of the first character of s[from..] that is in `stops`, Len(s)+1 if none
firstStop(s, from, stops) ==
  IF \E i \in from..Len(s) : s[i] \in stops
  THEN CHOOSE i \in from..Len(s) :
         s[i] \in stops /\ \A j \in from..(i-1) : s[j] \notin stops
  ELSE Len(s) + 1

\* length of the "scheme://" prefix of an absolute URL, 0 if it has none
schemeLen(u) ==
  IF startswith(u, Https) THEN Len(Https)
  ELSE IF startswith(u, Http) THEN Len(Http)
  ELSE 0

\* urlparse(u).netloc
netloc(u) ==
  IF schemeLen(u) = 0 THEN <<>>
  ELSE SubSeq(u, schemeLen(u) + 1,
              firstStop(u, schemeLen(u) + 1, {"/", "?", "#"}) - 1)

\* urlparse(u).path
urlpath(u) ==
  LET b == firstStop(u, schemeLen(u) + 1, {"/", "?", "#"})
  IN  SubSeq(u, b, firstStop(u, b, {"?", "#"}) - 1)

\* Path(p).suffix: from the last dot of the last path segment, "" if none
suffix(p) ==
  LET seg == afterLast(p, "/")
  IN  IF rfind(seg, ".") <= 1 THEN <<>>
      ELSE SubSeq(seg, rfind(seg, "."), Len(seg))

\* urljoin(url, raw): raw absolute, scheme-relative ("//host/..."),
\* root-relative, or relative to url's directory
urljoin(url, raw) ==
  IF schemeLen(raw) > 0 THEN raw
  ELSE IF startswith(raw, <<"/","/">>)
  THEN SubSeq(url, 1, schemeLen(url) - 2) \o raw
  ELSE IF startswith(raw, <<"/">>)
  THEN SubSeq(url, 1, schemeLen(url)) \o netloc(url) \o raw
  ELSE LET p == urlpath(url)
       IN  SubSeq(url, 1, schemeLen(url)) \o netloc(url)
             \o SubSeq(p, 1, rfind(p, "/"))
             \o (IF rfind(p, "/") = 0 THEN <<"/">> ELSE <<>>) \o raw

----------------------------------------------------------------------------
(* The target site: what each URL serves *)

UnivEdu == <<"u","n","i","v",".","e","d","u">>

NotUnivEdu == <<"n","o","t">> \o UnivEdu

\* KingHarvester(root_url) for the input "univ.edu": self.root_url
root_url == Https \o UnivEdu

\* self.base_domain of a harvester made for root: the netloc of root,
\* lower-cased, "www." stripped
base_domain_of(root) ==
  LET n == lower(netloc(root))
  IN  IF startswith(n, <<"w","w","w",".">>) THEN SubSeq(n, 5, Len(n)) ELSE n

\* self.base_domain of the harvester of the crawl
base_domain == base_domain_of(root_url)

StaffPath == <<"/","s","t","a","f","f">>

AboutPath == <<"/","a","b","o","u","t">>

HandbookPath == <<"/","f","/","h","b",".","P","D","F">>

CsUrl == Https \o <<"c","s",".">> \o UnivEdu

OtherUrl == Https \o NotUnivEdu \o <<"/","x">>

JaneRaw == <<"J","a","n","e","@">> \o UnivEdu

JaneLow == <<"j","a","n","e","@">> \o UnivEdu

BobOther == <<"b","o","b","@","n","o","t">> \o UnivEdu

AlCs == <<"a","l","@","c","s",".">> \o UnivEdu

DocOnly == <<"d","o","c","@">> \o UnivEdu

\* "al at cs.univ dot edu": the groups of the spelled-out pattern
AlSpelled == << <<"a","l">>, <<"c","s",".","u","n","i","v">>, <<"e","d","u">> >>

\* "eve at notuniv dot edu"
EveSpelled == << <<"e","v","e">>, <<"n","o","t","u","n","i","v">>, <<"e","d","u">> >>

\* "Staff[at]univ[dot]edu" once the brackets are substituted
StaffDeob == <<"S","t","a","f","f","@">> \o UnivEdu

NoPage == [emails |-> {}, hrefs |-> <<>>, hasAt |-> FALSE, deob |-> {},
           spelled |-> {}]

\* the HTML a successful fetch of u returns, given by what the regular
\* expressions find in it: emails, the matches of the e-mail pattern; hrefs, the
\* href values in document order; hasAt, whether it contains "[at]" or "(at)";
\* deob, the further matches of the e-mail pattern once the bracketed and spaced
\* at/dot markers are substituted; spelled, the group triples of the
\* "name at domain dot tld" patterns
Html(u) ==
  CASE u = root_url ->
         [emails |-> {JaneRaw, BobOther},
          hrefs  |-> << root_url \o StaffPath, HandbookPath, OtherUrl,
                        <<"m","a","i","l","t","o",":","x">> >>,
          hasAt |-> TRUE, deob |-> {StaffDeob},
          spelled |-> {AlSpelled, EveSpelled}]
    [] u = root_url \o StaffPath ->
         [emails |-> {JaneLow}, hrefs |-> << HandbookPath >>,
          hasAt |-> FALSE, deob |-> {}, spelled |-> {}]
    [] u = CsUrl ->
         [emails |-> {AlCs},
          hrefs |-> << AboutPath, <<"a",".","h","t","m","l">>,
                        <<"/","/">> \o NotUnivEdu \o <<"/","x">>,
                        Https \o UnivEdu \o <<":","8","0","/","x">> >>,
          hasAt |-> FALSE, deob |-> {}, spelled |-> {}]
    [] OTHER -> NoPage

\* the text pdftotext / strings gives for a downloaded document, as the
\* matches of the e-mail pattern in it
DocText(u) ==
  IF lower(suffix(urlpath(u))) = <<".","p","d","f">>
  THEN {JaneRaw, DocOnly, BobOther}
  ELSE {}

----------------------------------------------------------------------------
(* Extraction *)

\* the filter of extract_and_clean_emails left out
extract_unfiltered(matches, base) == { lower(e) : e \in matches }

\* extract_and_clean_emails: of the pattern's matches, those in scope, lower-cased
extract_and_clean_emails(matches, base) ==
  { lower(e) : e \in { m \in matches : is_target_domain(m, base) } }

\* extract_and_clean_emails of appv0.1.py: the standard matches, the matches in
\* the de-obfuscated text when the page has "[at]" or "(at)", and the addresses
\* f"{local}@{domain_part}.{tld}" of the spelled-out patterns; each is kept if
\* in scope, lower-cased
extract_and_clean_emails_elite(page, base) ==
  LET built == { g[1] \o <<"@">> \o g[2] \o <<".">> \o g[3] : g \in page.spelled }
      cands == page.emails \cup (IF page.hasAt THEN page.deob ELSE {}) \cup built
  IN  { lower(e) : e \in { m \in cands : is_target_domain(m, base) } }

\* extract_emails_from_doc, when the extraction tool ran
extract_emails_from_doc(matches, base) ==
  { lower(e) : e \in { m \in matches : is_target_domain(m, base) } }

DOCUMENT_EXTENSIONS ==
  { <<".","p","d","f">>, <<".","d","o","c">>, <<".","d","o","c","x">>,
    <<".","p","p","t">>, <<".","p","p","t","x">> }

\* the capture of href=['"]?([^'" >]+\.(pdf|docx?|pptx?)) with re.IGNORECASE on
\* one href value: its longest prefix ending in an extension, <<>> if none
docMatch(raw) ==
  LET low  == lower(raw)
      ends == { k \in 1..Len(raw) :
                  \E x \in DOCUMENT_EXTENSIONS :
                     Len(x) < k /\ SubSeq(low, k - Len(x) + 1, k) = x }
  IN  IF ends = {} THEN <<>>
      ELSE SubSeq(raw, 1, CHOOSE k \in ends : \A j \in ends : j <= k)

\* doc_links of scrape_page: the captures, in document order
RECURSIVE doc_links(_)
doc_links(hrefs) ==
  IF hrefs = <<>> THEN <<>>
  ELSE (IF docMatch(Head(hrefs)) = <<>> THEN <<>> ELSE << docMatch(Head(hrefs)) >>)
         \o doc_links(Tail(hrefs))

\* next_urls of scrape_page: the absolute and root-relative hrefs whose netloc
\* is in scope and that are not in self.visited, in document order
RECURSIVE next_urls(_, _, _, _)
next_urls(url, hrefs, base, vis) ==
  IF hrefs = <<>> THEN <<>>
  ELSE LET raw  == Head(hrefs)
           rest == next_urls(url, Tail(hrefs), base, vis)
           full == IF startswith(raw, Http) \/ startswith(raw, Https) THEN raw
                   ELSE urljoin(url, raw)
       IN  IF ~ (startswith(raw, Http) \/ startswith(raw, Https)
                   \/ startswith(raw, <<"/">>))
           THEN rest
           ELSE IF hostInScope(lower(netloc(full)), base) /\ full \notin vis
                THEN <<full>> \o rest
                ELSE rest

\* the URLs that serve a page with content
Pages == { root_url, root_url \o StaffPath, CsUrl }

\* doc_links of each page, computed once
DocLinksOf == [u \in Pages |-> doc_links(Html(u).hrefs)]

\* doc_links of the page at url
page_doc_links(url) == IF url \in Pages THEN DocLinksOf[url] ELSE <<>>

\* the links of each page that pass the form and scope tests of the next-links
\* loop, computed once; the test on self.visited is applied when the loop runs
ScopedLinksOf == [u \in Pages |-> next_urls(u, Html(u).hrefs, base_domain, {})]

\* next_urls of the page at url, given self.visited
page_next_urls(url, vis) ==
  IF url \in Pages
  THEN SelectSeq(ScopedLinksOf[url], LAMBDA full : full \notin vis)
  ELSE <<>>

\* new_emails of each page, computed once: extract_and_clean_emails of the
\* class (Elite: of the module) on the page's html
NewEmailsOf ==
  [u \in Pages |->
     [elite |-> extract_and_clean_emails_elite(Html(u), base_domain),
      plain |-> extract_and_clean_emails(Html(u).emails, base_domain)]]

\* new_emails of scrape_page for the page at url
page_emails(v, url) ==
  IF url \notin Pages THEN {}
  ELSE IF v = "Elite" THEN NewEmailsOf[url].elite ELSE NewEmailsOf[url].plain

\* the document URLs the pages link to
DocUrls ==
  UNION { { urljoin(u, DocLinksOf[u][j]) : j \in 1..Len(DocLinksOf[u]) } :
          u \in Pages }

\* doc_emails of each document that was saved, computed once
DocEmailsOf ==
  [d \in DocUrls |-> extract_emails_from_doc(DocText(d), base_domain)]

\* doc_emails of scrape_page for the saved document full_url
doc_emails(full_url) ==
  IF full_url \in DocUrls THEN DocEmailsOf[full_url] ELSE {}

----------------------------------------------------------------------------
(* The record store *)

EmptyStore == [e \in {} |-> 0]

\* the record scrape_page stores for an e-mail found in the page at url (for
\* Elite, whose store is a set, the member itself).  The attributes that
\* classify_profile / extract_context add are functions of the page and the
\* e-mail, and the page is a function of url.
ProfileFromPage(v, url, email) ==
  CASE v = "King"  -> [email |-> email, source_url |-> url]
    [] v = "Nexus" -> [source |-> url]
    [] OTHER       -> [email |-> email]

\* the record scrape_page stores for an e-mail found in the document full_url
ProfileFromDoc(v, full_url, email) ==
  IF v = "King"
  THEN [email |-> email, name |-> "", seniority |-> "unknown",
        department |-> "General", confidence |-> 40,
        source_url |-> full_url, context_snippet |-> "From document"]
  ELSE [name |-> "", role |-> "", department |-> "",
        confidence |-> 60, source |-> full_url]

\* a store in which a later sighting replaces the record
mergeOverwrite(store, recs) ==
  [e \in DOMAIN store \cup DOMAIN recs |->
     IF e \in DOMAIN recs THEN recs[e] ELSE store[e]]

\* for email in new: if email not in store: store[email] = recs[email]
mergeNew(store, recs) ==
  [e \in DOMAIN store \cup DOMAIN recs |->
     IF e \in DOMAIN store THEN store[e] ELSE recs[e]]

----------------------------------------------------------------------------
(* The scheduler: crawl(), _worker() / _process_url(), scrape_page() *)

TaskIds == 1..(CONCURRENT + 1)

\* skipped: scrape_page found its html empty ("if not html") and returned []
NoTask == [pc |-> "free", url |-> <<>>, di |-> 0, skipped |-> FALSE]

Variants == {"King", "Nexus", "Elite"}

\* start_urls of crawl(): the root, the guessed subdomains, and (King, Nexus)
\* the guessed sensitive paths
start_urls(v) ==
  IF v = "Elite" THEN << root_url, CsUrl >>
  ELSE << root_url, CsUrl, urljoin(root_url, StaffPath) >>

Range(s) == { s[i] : i \in 1..Len(s) }

\* the state after __init__, when crawl() has built its deque of start URLs
InitHarvester(v) ==
  /\ variant = v
  /\ crawlpc = "run"
  /\ queue = start_urls(v)
  /\ tasks = {}
  /\ task = [t \in TaskIds |-> NoTask]
  /\ visited = {}
  /\ documents = {}
  /\ pages = 0
  /\ profiles = EmptyStore
  /\ browser = 0
  /\ launched = 0
  /\ fetchCount = EmptyStore
  /\ enqueued = Range(start_urls(v))
  /\ downloadCount = EmptyStore

InitCrawl == \E v \in Variants : InitHarvester(v)

\* len(tasks) <= CONCURRENT
HasCapacityOffByOne(ts) == Cardinality(ts) <= CONCURRENT

\* len(tasks) < CONCURRENT
HasCapacity(ts) == Cardinality(ts) < CONCURRENT

\* while queue and len(tasks) < CONCURRENT: popleft, create_task, tasks.add
RECURSIVE Launch(_, _, _)
Launch(q, ts, tk) ==
  IF q # <<>> /\ HasCapacity(ts)
  THEN LET t == CHOOSE x \in TaskIds \ ts : \A y \in TaskIds \ ts : x <= y
       IN  Launch(Tail(q), ts \cup {t},
                  [tk EXCEPT ![t] = [NoTask EXCEPT !.pc = "new", !.url = Head(q)]])
  ELSE <<q, ts, tk>>

\* the loop runs while there is budget, whatever the frontier holds
ContinueWhileBudget == pages < MAX_PAGES

\* the loop looks at the frontier only, not at the tasks in flight
ContinueQueueOnly == queue # <<>> /\ pages < MAX_PAGES

\* the loop condition of crawl()
Continue == (queue # <<>> \/ tasks # {}) /\ pages < MAX_PAGES

\* one iteration of crawl()'s loop, up to its sleep
CrawlLoop ==
  /\ crawlpc = "run"
  /\ Continue
  /\ LET r == Launch(queue, tasks, task)
     IN  /\ queue' = r[1]
         /\ tasks' = r[2]
         /\ task' = r[3]
  /\ UNCHANGED <<sideVars, downloadCount>>
  /\ UNCHANGED <<variant, crawlpc, visited, documents, pages, profiles, browser,
                 launched, fetchCount, enqueued>>

\* the loop condition fails: crawl() returns, main() exports and starts close()
CrawlReturn ==
  /\ crawlpc = "run"
  /\ ~ Continue
  /\ crawlpc' = "returned"
  /\ UNCHANGED <<sideVars, downloadCount>>
  /\ UNCHANGED <<variant, queue, tasks, task, visited, documents, pages,
                 profiles, browser, launched, fetchCount, enqueued>>

\* close() has completed and asyncio.run() has cancelled what tasks remained
MainClose ==
  /\ crawlpc = "returned"
  /\ crawlpc' = "closed"
  /\ UNCHANGED <<sideVars, downloadCount>>
  /\ UNCHANGED <<variant, queue, tasks, task, visited, documents, pages,
                 profiles, browser, launched, fetchCount, enqueued>>

NotAsked == [asked |-> FALSE, email |-> FALSE, host |-> FALSE]

\* no doc-link loop is being looked at in detail
NoDoc == [pc |-> "none", cur |-> <<>>, links |-> <<>>, files |-> {}]

\* no fetch is being looked at in detail
NoFetch == [pc |-> "none", attempt |-> 0, calls |-> <<>>, static |-> <<>>,
            ctx |-> {}, made |-> 0, pending |-> "", html |-> <<>>,
            log |-> <<>>]

\* no page's record creation is being looked at
NoCls == [pc |-> "none", seed |-> <<>>, text |-> <<>>, matches |-> {},
          docs |-> {}]

\* no subdomain discovery is being looked at
NoDisc == [pc |-> "none", reply |-> <<>>, found |-> {}, out |-> {}]

\* a task runs only while it is in the event loop: created and not yet cancelled
Running(t) == t \in tasks /\ crawlpc # "closed"

\* the visited check of scrape_page left out
NeverVisited(u) == FALSE

\* url in self.visited
AlreadyVisited(u) == u \in visited

\* self.pages > MAX_PAGES
OverBudgetStrict == pages > MAX_PAGES

\* self.pages >= MAX_PAGES
OverBudget == pages >= MAX_PAGES

\* one more occurrence of u in the bag f
bump(f, u) ==
  [x \in DOMAIN f \cup {u} |->
     IF x \in DOMAIN f THEN (IF x = u THEN f[x] + 1 ELSE f[x]) ELSE 1]

\* the heavy path begins: "if not self.browser" is read, and the coroutine
\* suspends either in the launch or, the browser being there, in the fetch on it
heavyPc == IF browser = 0 THEN "launching" ELSE "fetching"

\* _worker starts: scrape_page from its first line to the first suspension
ScrapeStart(t) ==
  /\ Running(t)
  /\ task[t].pc = "new"
  /\ LET u == task[t].url
     IN  IF AlreadyVisited(u) \/ OverBudget
         THEN /\ task' = [task EXCEPT ![t].pc = "delay"]
              /\ UNCHANGED <<visited, pages, fetchCount>>
         ELSE /\ visited' = visited \cup {u}
              /\ pages' = pages + 1
              /\ fetchCount' = bump(fetchCount, u)
              /\ task' = [task EXCEPT
                    ![t].pc = IF variant = "Elite" THEN "static" ELSE heavyPc]
  /\ UNCHANGED <<sideVars, downloadCount>>
  /\ UNCHANGED <<variant, crawlpc, queue, tasks, documents, profiles, browser,
                 launched, enqueued>>

\* the test on self.documents left out
NeverInDocuments(u, docs) == FALSE

\* full_url in self.documents
InDocuments(u, docs) == u \in docs

\* index of the next doc link after di whose URL is not in self.documents, 0 if none
nextDoc(url, dl, di, docs) ==
  IF \E j \in (di+1)..Len(dl) : ~ InDocuments(urljoin(url, dl[j]), docs)
  THEN CHOOSE j \in (di+1)..Len(dl) :
         /\ ~ InDocuments(urljoin(url, dl[j]), docs)
         /\ \A k \in (di+1)..(j-1) : InDocuments(urljoin(url, dl[k]), docs)
  ELSE 0

\* scrape_page from the doc-link loop on (doc links up to di are done): up to the
\* next download, or to the end, where _worker appends next_urls and sleeps
ContinueDocs(t, di) ==
  LET url == task[t].url
      dl  == page_doc_links(url)
      j   == IF variant = "Elite" THEN 0 ELSE nextDoc(url, dl, di, documents)
      nx  == IF pages < MAX_PAGES THEN page_next_urls(url, visited) ELSE <<>>
  IN  IF j # 0
      THEN /\ documents' = documents \cup {urljoin(url, dl[j])}
           /\ downloadCount' = bump(downloadCount, urljoin(url, dl[j]))
           /\ task' = [task EXCEPT ![t].pc = "downloading", ![t].di = j]
           /\ UNCHANGED <<queue, enqueued>>
      ELSE /\ queue' = queue \o nx
           /\ enqueued' = enqueued \cup Range(nx)
           /\ task' = [task EXCEPT ![t].pc = "delay"]
           /\ UNCHANGED <<documents, downloadCount>>

\* scrape_page once it holds the html of its page: the e-mails are merged
GotHtml(t) ==
  LET url == task[t].url
      new == page_emails(variant, url)
  IN  /\ profiles' = mergeNew(profiles,
                        [e \in new |-> ProfileFromPage(variant, url, e)])
      /\ ContinueDocs(t, 0)

\* fetch_static returns (Elite): the page, a script-only shell, or ""
StaticDone(t) ==
  /\ Running(t)
  /\ task[t].pc = "static"
  /\ \E out \in {"ok", "shell", "empty"} :
       IF out = "ok"
       THEN GotHtml(t)
       ELSE /\ task' = [task EXCEPT ![t].pc = heavyPc]
            /\ UNCHANGED <<queue, documents, profiles, enqueued, downloadCount>>
  /\ UNCHANGED sideVars
  /\ UNCHANGED <<variant, crawlpc, tasks, visited, pages, browser, launched,
                 fetchCount>>

\* chromium.launch() returns and self.browser is assigned, or it raises
LaunchDone(t) ==
  /\ Running(t)
  /\ task[t].pc = "launching"
  /\ \E ok \in BOOLEAN :
       IF ok
       THEN /\ launched' = launched + 1
            /\ browser' = launched + 1
            /\ task' = [task EXCEPT ![t].pc = "fetching"]
       ELSE /\ task' = [task EXCEPT ![t].pc = "done"]
            /\ UNCHANGED <<browser, launched>>
  /\ UNCHANGED <<sideVars, downloadCount>>
  /\ UNCHANGED <<variant, crawlpc, queue, tasks, visited, documents, pages,
                 profiles, fetchCount, enqueued>>

\* the failed fetch is given up and the URL put back on the frontier
SkipButRequeue(t) ==
  /\ task' = [task EXCEPT ![t].pc = "delay", ![t].skipped = TRUE]
  /\ queue' = Append(queue, task[t].url)
  /\ UNCHANGED <<documents, profiles, enqueued, downloadCount>>

\* if not html: return []  -- and _worker, with nothing to append, sleeps
SoftSkip(t) ==
  /\ task' = [task EXCEPT ![t].pc = "delay", ![t].skipped = TRUE]
  /\ UNCHANGED <<queue, documents, profiles, enqueued, downloadCount>>

\* the heavy path ends: rendered html, "" after its attempts, or an exception
\* of new_context / add_init_script / new_page, which no handler catches
FetchDone(t) ==
  /\ Running(t)
  /\ task[t].pc = "fetching"
  /\ \E out \in {"html", "empty", "raise"} :
       CASE out = "html" -> GotHtml(t)
         [] out = "empty" -> SoftSkip(t)
         [] OTHER ->
              /\ task' = [task EXCEPT ![t].pc = "done"]
              /\ UNCHANGED <<queue, documents, profiles, enqueued, downloadCount>>
  /\ UNCHANGED sideVars
  /\ UNCHANGED <<variant, crawlpc, tasks, visited, pages, browser, launched,
                 fetchCount>>

\* download_document returns: a saved file, whose e-mails are merged, or "";
\* or (Nexus) os.remove raises in the finally of extract_emails_from_doc, which
\* no handler catches
DownloadDone(t) ==
  /\ Running(t)
  /\ task[t].pc = "downloading"
  /\ LET url  == task[t].url
         full == urljoin(url, page_doc_links(url)[task[t].di])
     IN  \E out \in {"saved", "none", "raise"} :
           /\ out # "none" => lower(suffix(urlpath(full))) \in DOCUMENT_EXTENSIONS
           /\ out = "raise" => variant = "Nexus"
           /\ IF out = "raise"
              THEN /\ task' = [task EXCEPT ![t].pc = "done"]
                   /\ UNCHANGED <<queue, documents, profiles, enqueued,
                                  downloadCount>>
              ELSE /\ profiles' =
                        IF out = "saved"
                        THEN mergeNew(profiles,
                               [e \in doc_emails(full)
                                  |-> ProfileFromDoc(variant, full, e)])
                        ELSE profiles
                   /\ ContinueDocs(t, task[t].di)
  /\ UNCHANGED sideVars
  /\ UNCHANGED <<variant, crawlpc, tasks, visited, pages, browser, launched,
                 fetchCount>>

\* the politeness sleep of _worker ends and the task finishes
DelayDone(t) ==
  /\ Running(t)
  /\ task[t].pc = "delay"
  /\ task' = [task EXCEPT ![t].pc = "done"]
  /\ UNCHANGED <<sideVars, downloadCount>>
  /\ UNCHANGED <<variant, crawlpc, queue, tasks, visited, documents, pages,
                 profiles, browser, launched, fetchCount, enqueued>>

\* the done callback of a finished task: tasks.discard
Discard(t) ==
  /\ Running(t)
  /\ task[t].pc = "done"
  /\ tasks' = tasks \ {t}
  /\ task' = [task EXCEPT ![t] = NoTask]
  /\ UNCHANGED <<sideVars, downloadCount>>
  /\ UNCHANGED <<variant, crawlpc, queue, visited, documents, pages, profiles,
                 browser, launched, fetchCount, enqueued>>

Init ==
  /\ InitCrawl
  /\ sIn = <<>>
  /\ sBase = <<>>
  /\ sOut = NotAsked
  /\ fetch = NoFetch
  /\ doc = NoDoc
  /\ cls = NoCls
  /\ disc = NoDisc

Next ==
  \/ CrawlLoop
  \/ CrawlReturn
  \/ MainClose
  \/ \E t \in TaskIds : ScrapeStart(t)
  \/ \E t \in TaskIds : StaticDone(t)
  \/ \E t \in TaskIds : LaunchDone(t)
  \/ \E t \in TaskIds : FetchDone(t)
  \/ \E t \in TaskIds : DownloadDone(t)
  \/ \E t \in TaskIds : DelayDone(t)
  \/ \E t \in TaskIds : Discard(t)

Spec == Init /\ [][Next]_vars

\* one step of task t: a task is at one position, so at most one is enabled
WorkerStep(t) ==
  \/ ScrapeStart(t)
  \/ StaticDone(t)
  \/ LaunchDone(t)
  \/ FetchDone(t)
  \/ DownloadDone(t)
  \/ DelayDone(t)
  \/ Discard(t)

\* the scheduler under the fairness asyncio gives it: the sleep of crawl()'s
\* loop ends and the loop runs again or returns, and every await of a task in
\* the event loop returns
FairSpec ==
  /\ Spec
  /\ WF_vars(CrawlLoop)
  /\ WF_vars(CrawlReturn)
  /\ \A t \in TaskIds : WF_vars(WorkerStep(t))

----------------------------------------------------------------------------
(* The scope filter as a function of its input: every string over a small  *)
(* alphabet up to MaxLen, against two base domains, and named hosts        *)

ScopeChars == {"u", "U", "e", ".", "@"}

ScopeStrings == UNION { [1..n -> ScopeChars] : n \in 0..MaxLen }

AdminUnivEdu == <<"a","d","m","i","n",".">> \o UnivEdu

InitScope ==
  /\ \/ /\ sIn \in ScopeStrings
        /\ sBase \in { <<"e">>, <<"u",".","e">> }
     \/ /\ sIn \in { AdminUnivEdu, NotUnivEdu, UnivEdu, JaneRaw, BobOther, AlCs }
        /\ sBase = UnivEdu
  /\ sOut = NotAsked
  /\ fetch = NoFetch
  /\ doc = NoDoc
  /\ cls = NoCls
  /\ disc = NoDisc
  /\ InitHarvester("King")

\* the filter is asked about sIn: as an e-mail (is_target_domain) and as the
\* netloc of a link (parsed.netloc.lower(), then the host rule)
ApplyScope ==
  /\ ~ sOut.asked
  /\ sOut' = [asked |-> TRUE,
              email |-> is_target_domain(sIn, sBase),
              host  |-> hostInScope(lower(sIn), sBase)]
  /\ UNCHANGED <<sIn, sBase, fetch, doc, cls, disc>>
  /\ UNCHANGED crawlVars

NextScope == ApplyScope

ScopeSpec == InitScope /\ [][NextScope]_vars

----------------------------------------------------------------------------
(* One fetch in detail: what scrape_page does to obtain the html of one    *)
(* URL.  fetch_static and fetch_dynamic of appv0.1.py, fetch_with_evasion  *)
(* of the other two files; each action runs from one await to the next     *)

\* for attempt in range(3) of fetch_static
StaticAttempts == 3

\* for attempt in range(2) of fetch_with_evasion
EvasionAttempts == 2

\* sub in s
contains(s, sub) ==
  \E i \in 1..(Len(s) - Len(sub) + 1) : SubSeq(s, i, i + Len(sub) - 1) = sub

Noscript == <<"<","n","o","s","c","r","i","p","t",">">>

EnableJavaScript ==
  <<"e","n","a","b","l","e"," ","J","a","v","a","S","c","r","i","p","t">>

PlainBody == <<"<","p",">">>

\* the bodies a 200 response of the fast path may carry
StaticBodies ==
  { <<>>, PlainBody, Noscript, EnableJavaScript, lower(EnableJavaScript),
    <<"P","l","s"," ">> \o EnableJavaScript }

\* what page.content() gives
Rendered == <<"<","d","i","v",">">>

\* not html or "<noscript>" in html or "enable JavaScript" in html.lower()
insufficient(html) ==
  \/ html = <<>>
  \/ contains(html, Noscript)
  \/ contains(lower(html), EnableJavaScript)

\* the heavy path is called: "if not self.browser" is read, and the coroutine
\* suspends in the launch or in new_context
enterHeavy(f) ==
  [f EXCEPT !.pc = IF browser = 0 THEN "launch" ELSE "new_context",
            !.calls = Append(@, "dynamic"), !.attempt = 0]

\* the fetch function returns html to scrape_page
returns(f, html) == [f EXCEPT !.pc = "returned", !.html = html]

\* fetch_static returns b, and scrape_page decides whether to escalate
staticReturns(f, b) ==
  IF insufficient(b)
  THEN enterHeavy([f EXCEPT !.static = b])
  ELSE returns([f EXCEPT !.static = b], b)

\* the loop of fetch_static with one attempt more than range(3) gives
nextStaticOneMore(f) ==
  IF f.attempt < StaticAttempts
  THEN [f EXCEPT !.attempt = @ + 1, !.pc = "static"]
  ELSE staticReturns(f, <<>>)

\* the loop of fetch_static goes to its next attempt, or ends: return ""
nextStatic(f) ==
  IF f.attempt + 1 < StaticAttempts
  THEN [f EXCEPT !.attempt = @ + 1, !.pc = "static"]
  ELSE staticReturns(f, <<>>)

\* the loop of fetch_with_evasion goes to its next attempt, or ends: return ""
nextEvasion(f) ==
  IF f.attempt + 1 < EvasionAttempts
  THEN [f EXCEPT !.attempt = @ + 1, !.pc = "new_context"]
  ELSE returns(f, <<>>)

\* an exception inside the try block of the heavy path: Elite returns "" through
\* the finally; King passes, closes, then sleeps; Nexus sleeps in the handler
\* and closes afterwards
handler(f) ==
  CASE variant = "Elite" -> [f EXCEPT !.pc = "close", !.pending = "empty"]
    [] variant = "King"  -> [f EXCEPT !.pc = "close", !.pending = "retry"]
    [] OTHER             -> [f EXCEPT !.pc = "sleep", !.pending = "retry"]

fetchFrame ==
  /\ UNCHANGED <<scopeVars, doc, cls, disc>>
  /\ UNCHANGED <<variant, crawlpc, queue, tasks, task, visited, documents,
                 pages, profiles, fetchCount, enqueued, downloadCount>>

\* scrape_page calls its fetcher: fetch_static (Elite) or fetch_with_evasion
BeginFetch ==
  /\ fetch.pc = "start"
  /\ fetch' = IF variant = "Elite"
              THEN [fetch EXCEPT !.pc = "static", !.calls = <<"static">>]
              ELSE enterHeavy(fetch)
  /\ UNCHANGED <<browser, launched>>
  /\ fetchFrame

\* what one pass of the loop of fetch_static is written down as
logged(f, event) == [f EXCEPT !.log = Append(@, event)]

\* session.get of fetch_static ends: 200 and a body that resp.text() reads,
\* 403/429 (sleep 5), another status (next attempt at once), or an exception
\* of session.get or of resp.text() (sleep 2)
StaticGet ==
  /\ fetch.pc = "static"
  /\ \E out \in {"200", "403", "500", "exception"} :
       CASE out = "200" -> \E b \in StaticBodies :
                             fetch' = staticReturns(logged(fetch, out), b)
         [] out = "500" -> fetch' = nextStatic(logged(fetch, out))
         [] OTHER       -> fetch' = [logged(fetch, out) EXCEPT
                                       !.pc = "static_sleep"]
  /\ UNCHANGED <<browser, launched>>
  /\ fetchFrame

\* the sleep of fetch_static ends
StaticSleep ==
  /\ fetch.pc = "static_sleep"
  /\ fetch' = nextStatic(logged(fetch,
                 IF fetch.log[Len(fetch.log)] = "403" THEN "sleep5"
                 ELSE "sleep2"))
  /\ UNCHANGED <<browser, launched>>
  /\ fetchFrame

\* chromium.launch() ends: self.browser is assigned, or the exception leaves
\* the fetch function (no try encloses the launch)
BrowserLaunch ==
  /\ fetch.pc = "launch"
  /\ \E ok \in BOOLEAN :
       IF ok
       THEN /\ browser' = launched + 1
            /\ launched' = launched + 1
            /\ fetch' = [fetch EXCEPT !.pc = "new_context"]
       ELSE /\ fetch' = [fetch EXCEPT !.pc = "raised"]
            /\ UNCHANGED <<browser, launched>>
  /\ fetchFrame

\* self.browser.new_context() ends: a context exists, or the exception leaves
\* the fetch function
NewContext ==
  /\ fetch.pc = "new_context"
  /\ \E ok \in BOOLEAN :
       fetch' = IF ok
                THEN [fetch EXCEPT !.pc = "add_init_script", !.made = @ + 1,
                                   !.ctx = @ \cup {fetch.made + 1}]
                ELSE [fetch EXCEPT !.pc = "raised"]
  /\ UNCHANGED <<browser, launched>>
  /\ fetchFrame

\* context.add_init_script() ends; it stands before the try
AddInitScript ==
  /\ fetch.pc = "add_init_script"
  /\ \E ok \in BOOLEAN :
       fetch' = [fetch EXCEPT !.pc = IF ok THEN "new_page" ELSE "raised"]
  /\ UNCHANGED <<browser, launched>>
  /\ fetchFrame

\* context.new_page() ends; it stands before the try
NewPage ==
  /\ fetch.pc = "new_page"
  /\ \E ok \in BOOLEAN :
       fetch' = [fetch EXCEPT !.pc = IF ok THEN "goto" ELSE "raised"]
  /\ UNCHANGED <<browser, launched>>
  /\ fetchFrame

\* page.goto() and page.wait_for_timeout() end, inside the try
Goto ==
  /\ fetch.pc = "goto"
  /\ \E ok \in BOOLEAN :
       fetch' = IF ok THEN [logged(fetch, "goto") EXCEPT !.pc = "content"]
                ELSE handler(logged(fetch, "goto_failed"))
  /\ UNCHANGED <<browser, launched>>
  /\ fetchFrame

\* page.content() ends, inside the try: return content, through the finally
Content ==
  /\ fetch.pc = "content"
  /\ \E ok \in BOOLEAN :
       fetch' = IF ok
                THEN [fetch EXCEPT !.pc = "close", !.pending = "html"]
                ELSE handler(logged(fetch, "content_failed"))
  /\ UNCHANGED <<browser, launched>>
  /\ fetchFrame

\* finally: context.close() ends; the pending return or the rest of the loop
\* body follows, or the exception of close() leaves the fetch function
ContextClose ==
  /\ fetch.pc = "close"
  /\ \E ok \in BOOLEAN : \E gone \in BOOLEAN :
       LET f == [fetch EXCEPT !.ctx = IF ok \/ gone THEN @ \ {fetch.made} ELSE @]
       IN  fetch' =
             CASE ~ ok                     -> [f EXCEPT !.pc = "raised"]
               [] f.pending = "html"       -> returns(f, Rendered)
               [] f.pending = "empty"      -> returns(f, <<>>)
               [] variant = "King"         -> [f EXCEPT !.pc = "sleep"]
               [] OTHER                    -> nextEvasion(f)
  /\ UNCHANGED <<browser, launched>>
  /\ fetchFrame

\* asyncio.sleep(2) of fetch_with_evasion ends: after the finally (King), or in
\* the handler, before the finally (Nexus)
EvasionSleep ==
  /\ fetch.pc = "sleep"
  /\ fetch' = IF variant = "King" THEN nextEvasion(logged(fetch, "sleep"))
              ELSE [logged(fetch, "sleep") EXCEPT !.pc = "close"]
  /\ UNCHANGED <<browser, launched>>
  /\ fetchFrame

\* scrape_page is about to fetch its URL; no browser has been launched yet
InitFetch ==
  /\ InitCrawl
  /\ sIn = <<>>
  /\ sBase = <<>>
  /\ sOut = NotAsked
  /\ fetch = [NoFetch EXCEPT !.pc = "start"]
  /\ doc = NoDoc
  /\ cls = NoCls
  /\ disc = NoDisc

NextFetch ==
  \/ BeginFetch
  \/ StaticGet
  \/ StaticSleep
  \/ BrowserLaunch
  \/ NewContext
  \/ AddInitScript
  \/ NewPage
  \/ Goto
  \/ Content
  \/ ContextClose
  \/ EvasionSleep

FetchSpec == InitFetch /\ [][NextFetch]_vars

----------------------------------------------------------------------------
(* The doc-link loop of one page in detail: download_document and          *)
(* extract_emails_from_doc (advanced_email_v3.py, email_harvester.py) and   *)
(* the scratch files they leave.  A file is named after its URL.            *)

\* "/g?f=b.pdf": the capture ends in an extension, the URL's path does not
QueryPdfPath == <<"/","g","?","f","=","b",".","p","d","f">>

SlidesPath == <<"/","c",".","p","p","t","x">>

\* the doc links of the page that is being mined: one or two captures
MineLinks ==
  LET D == {HandbookPath, QueryPdfPath, SlidesPath}
  IN  { <<a>> : a \in D } \cup { <<a, b>> : a \in D, b \in D }

\* the doc-link loop from `links` on, up to the await of the next download
\* (pc "get", the URL added to self.documents) or to its end (pc "links": link
\* discovery follows)
RECURSIVE mineFrom(_, _)
mineFrom(links, docs) ==
  IF links = <<>>
  THEN [pc |-> "links", cur |-> <<>>, links |-> <<>>, docs |-> docs]
  ELSE LET full_url == urljoin(root_url, Head(links))
       IN  IF InDocuments(full_url, docs)
           THEN mineFrom(Tail(links), docs)
           ELSE [pc |-> "get", cur |-> full_url, links |-> Tail(links),
                 docs |-> docs \cup {full_url}]

\* the records of the e-mails of document doc.cur
docRecs(emails) == [e \in emails |-> ProfileFromDoc(variant, doc.cur, e)]

\* the miner is done with doc.cur: its records are merged (none after a
\* failure), the scratch files are `files`, and the loop goes on
goOn(files, recs) ==
  LET n == mineFrom(doc.links, documents)
  IN  /\ doc' = [pc |-> n.pc, cur |-> n.cur, links |-> n.links, files |-> files]
      /\ documents' = n.docs
      /\ profiles' = mergeNew(profiles, recs)

docFrame ==
  /\ UNCHANGED <<scopeVars, fetch, cls, disc>>
  /\ UNCHANGED <<variant, crawlpc, queue, tasks, task, visited, pages, browser,
                 launched, fetchCount, enqueued, downloadCount>>

\* scrape_page reaches "for link, _ in doc_links"
BeginMine ==
  /\ doc.pc = "start"
  /\ goOn(doc.files, EmptyStore)
  /\ docFrame

\* session.get of download_document ends.  On 200 with a document extension
\* in the URL's path the file is opened for writing, which creates it, and the
\* body is awaited; anything else, or an exception, gives return ""
DocGet ==
  /\ doc.pc = "get"
  /\ \E out \in {"200", "404", "exception"} : \E opened \in BOOLEAN :
       IF /\ out = "200"
          /\ lower(suffix(urlpath(doc.cur))) \in DOCUMENT_EXTENSIONS
          /\ opened
       THEN /\ doc' = [doc EXCEPT !.pc = "read", !.files = @ \cup {doc.cur}]
            /\ UNCHANGED <<documents, profiles>>
       ELSE goOn(doc.files, EmptyStore)
  /\ docFrame

\* resp.read() ends and the body is written: download_document returns the
\* path and extract_emails_from_doc runs (it has no await), its tool working
\* or not; King leaves the file where it is, Nexus removes it in its finally,
\* and an exception of os.remove leaves the function.  When read() or write()
\* raises, download_document returns "" and the file it opened stays
DocRead ==
  /\ doc.pc = "read"
  /\ \E written \in BOOLEAN : \E tool \in BOOLEAN : \E removed \in BOOLEAN :
       LET emails == IF tool
                     THEN extract_emails_from_doc(DocText(doc.cur), base_domain)
                     ELSE {}
       IN  CASE ~ written        -> goOn(doc.files, EmptyStore)
             [] variant = "King" -> goOn(doc.files, docRecs(emails))
             [] removed          -> goOn(doc.files \ {doc.cur}, docRecs(emails))
             [] OTHER            -> /\ doc' = [doc EXCEPT !.pc = "raised"]
                                    /\ UNCHANGED <<documents, profiles>>
  /\ docFrame

\* a page with doc links has been fetched by a harvester that mines documents
InitDoc ==
  /\ \E v \in {"King", "Nexus"} : InitHarvester(v)
  /\ sIn = <<>>
  /\ sBase = <<>>
  /\ sOut = NotAsked
  /\ fetch = NoFetch
  /\ \E l \in MineLinks : doc = [NoDoc EXCEPT !.pc = "start", !.links = l]
  /\ cls = NoCls
  /\ disc = NoDisc

NextDoc ==
  \/ BeginMine
  \/ DocGet
  \/ DocRead

DocSpec == InitDoc /\ [][NextDoc]_vars

----------------------------------------------------------------------------
(* Classification: classify_profile (KingHarvester), extract_context       *)
(* (NexusHarvester), and the records scrape_page makes of one page          *)

\* re.split / str.split on one-character separators: the pieces of s between
\* the characters of seps, the empty pieces included
RECURSIVE split(_, _)
split(s, seps) ==
  LET i == firstStop(s, 1, seps)
  IN  IF i > Len(s) THEN << s >>
      ELSE << SubSeq(s, 1, i - 1) >> \o split(SubSeq(s, i + 1, Len(s)), seps)

\* what \s matches in the pages of the model
Whitespace == {" ", "\n", "\t"}

isUpper(c) == c \in DOMAIN ToLower

isLower(c) == \E k \in DOMAIN ToLower : ToLower[k] = c

\* str.upper() on one character
upperChar(c) ==
  IF isLower(c) THEN CHOOSE k \in DOMAIN ToLower : ToLower[k] = c ELSE c

\* str.capitalize(): first character upper-cased, the rest lower-cased
capitalize(p) ==
  IF p = <<>> THEN <<>> ELSE << upperChar(p[1]) >> \o lower(Tail(p))

\* re.sub(r'\s+', ' ', s): every run of whitespace becomes one blank
RECURSIVE collapse(_)
collapse(s) ==
  IF s = <<>> THEN <<>>
  ELSE IF s[1] \in Whitespace
       THEN IF Len(s) > 1 /\ s[2] \in Whitespace
            THEN collapse(Tail(s))
            ELSE << " " >> \o collapse(Tail(s))
       ELSE << s[1] >> \o collapse(Tail(s))

\* str.strip()
RECURSIVE strip(_)
strip(s) ==
  IF s = <<>> THEN <<>>
  ELSE IF s[1] \in Whitespace THEN strip(Tail(s))
  ELSE IF s[Len(s)] \in Whitespace THEN strip(SubSeq(s, 1, Len(s) - 1))
  ELSE s

\* position of the first occurrence of sub in s (str.index, from 1), 0 if none
index(s, sub) ==
  IF contains(s, sub)
  THEN CHOOSE i \in 1..(Len(s) - Len(sub) + 1) :
         /\ SubSeq(s, i, i + Len(sub) - 1) = sub
         /\ \A j \in 1..(i - 1) : SubSeq(s, j, j + Len(sub) - 1) # sub
  ELSE 0

\* sep.join(parts)
RECURSIVE join(_, _)
join(parts, sep) ==
  IF parts = <<>> THEN <<>>
  ELSE IF Len(parts) = 1 THEN parts[1]
  ELSE parts[1] \o sep \o join(Tail(parts), sep)

min(a, b) == IF a < b THEN a ELSE b

max(a, b) == IF a > b THEN a ELSE b

\* SENIORITY_KEYWORDS, in the dict's order
SENIORITY_KEYWORDS ==
  <<
    [label |-> "executive", keywords |-> <<
       <<"d","i","r","e","c","t","o","r">>,
       <<"h","e","a","d">>,
       <<"d","e","a","n">>,
       <<"c","h","a","i","r">>,
       <<"p","r","o","v","o","s","t">>,
       <<"v","p">>,
       <<"v","i","c","e"," ","p","r","e","s","i","d","e","n","t">>
     >>],
    [label |-> "senior", keywords |-> <<
       <<"p","r","o","f","e","s","s","o","r">>,
       <<"p","r","i","n","c","i","p","a","l">>,
       <<"l","e","a","d">>,
       <<"c","h","i","e","f">>,
       <<"m","a","n","a","g","e","r">>,
       <<"c","o","o","r","d","i","n","a","t","o","r">>
     >>],
    [label |-> "mid", keywords |-> <<
       <<"l","e","c","t","u","r","e","r">>,
       <<"e","n","g","i","n","e","e","r">>,
       <<"s","p","e","c","i","a","l","i","s","t">>,
       <<"o","f","f","i","c","e","r">>,
       <<"a","n","a","l","y","s","t">>
     >>],
    [label |-> "junior", keywords |-> <<
       <<"a","s","s","i","s","t","a","n","t">>,
       <<"t","r","a","i","n","e","e">>,
       <<"i","n","t","e","r","n">>,
       <<"s","t","u","d","e","n","t">>,
       <<"r","e","s","e","a","r","c","h","e","r">>
     >>]
  >>

\* DEPT_KEYWORDS, in the dict's order
DEPT_KEYWORDS ==
  <<
    [label |-> "Computer Science", keywords |-> <<
       <<"c","s">>,
       <<"c","o","m","p","u","t","e","r">>,
       <<"s","o","f","t","w","a","r","e">>,
       <<"a","i">>,
       <<"d","a","t","a">>,
       <<"i","t">>
     >>],
    [label |-> "Electrical Engineering", keywords |-> <<
       <<"e","e","e">>,
       <<"e","l","e","c","t","r","i","c","a","l">>,
       <<"e","l","e","c","t","r","o","n","i","c","s">>,
       <<"p","o","w","e","r">>,
       <<"t","e","l","e","c","o","m">>
     >>],
    [label |-> "Mechanical", keywords |-> <<
       <<"m","e">>,
       <<"m","e","c","h","a","n","i","c","a","l">>,
       <<"t","h","e","r","m","a","l">>,
       <<"a","u","t","o","m","o","t","i","v","e">>,
       <<"r","o","b","o","t","i","c","s">>
     >>],
    [label |-> "Civil", keywords |-> <<
       <<"c","e">>,
       <<"c","i","v","i","l">>,
       <<"c","o","n","s","t","r","u","c","t","i","o","n">>,
       <<"s","t","r","u","c","t","u","r","a","l">>,
       <<"e","n","v","i","r","o","n","m","e","n","t","a","l">>
     >>],
    [label |-> "Admin", keywords |-> <<
       <<"a","d","m","i","s","s","i","o","n">>,
       <<"r","e","g","i","s","t","r","a","r">>,
       <<"f","i","n","a","n","c","e">>,
       <<"h","r">>,
       <<"l","i","b","r","a","r","y">>,
       <<"a","c","c","o","u","n","t","s">>
     >>]
  >>

\* name_parts = re.split(r'[._-]', email.split('@')[0]) and the name made of
\* the first two parts, "" unless both are longer than one character
local_part_name(email) ==
  LET email_local == split(email, {"@"})[1]
      name_parts  == split(email_local, {".", "_", "-"})
  IN  IF Len(name_parts) >= 2 /\ \A i \in 1..2 : Len(name_parts[i]) > 1
      THEN capitalize(name_parts[1]) \o << " " >> \o capitalize(name_parts[2])
      ELSE <<>>

\* sum(1 for kw in keywords if kw in clean_text)
score(keywords, clean_text) ==
  Cardinality({ i \in 1..Len(keywords) : contains(clean_text, keywords[i]) })

\* the loop with "if score >= max": the last of the best entries is kept
RECURSIVE bestOfLast(_, _, _, _)
bestOfLast(table, clean_text, i, acc) ==
  IF i > Len(table) THEN acc
  ELSE LET sc == score(table[i].keywords, clean_text)
       IN  bestOfLast(table, clean_text, i + 1,
                      IF sc >= acc.max /\ sc > 0
                      THEN [label |-> table[i].label, max |-> sc]
                      ELSE acc)

\* the loop "for level, keywords in table.items(): if score > max: ..." from
\* entry i on; acc is the label and score held so far
RECURSIVE bestOf(_, _, _, _)
bestOf(table, clean_text, i, acc) ==
  IF i > Len(table) THEN acc
  ELSE LET sc == score(table[i].keywords, clean_text)
       IN  bestOf(table, clean_text, i + 1,
                  IF sc > acc.max
                  THEN [label |-> table[i].label, max |-> sc]
                  ELSE acc)

\* the confidence of classify_profile with "min(confidence, 0.95)" left out
confidenceNoCap(name, seniority, department, max_score, dept_score) ==
  30 + (IF name # <<>> THEN 20 ELSE 0)
     + (IF seniority # "unknown" THEN 15 ELSE 0)
     + (IF department # "General" THEN 15 ELSE 0)
     + (IF max_score + dept_score > 2 THEN 20 ELSE 0)

\* the confidence of classify_profile, in hundredths (the stored value is
\* round(confidence, 2))
confidence(name, seniority, department, max_score, dept_score) ==
  min(30 + (IF name # <<>> THEN 20 ELSE 0)
         + (IF seniority # "unknown" THEN 15 ELSE 0)
         + (IF department # "General" THEN 15 ELSE 0)
         + (IF max_score + dept_score > 2 THEN 20 ELSE 0),
      95)

ContextNotFound ==
  <<"C","o","n","t","e","x","t"," ","n","o","t"," ","f","o","u","n","d">>

\* _get_snippet(text, email): 200 characters of the first line that holds
\* the e-mail, from 100 characters before it
get_snippet(text, email) ==
  LET lines == split(text, {"\n"})
      hits  == { i \in 1..Len(lines) : contains(lower(lines[i]), email) }
  IN  IF hits = {} THEN ContextNotFound
      ELSE LET line  == lines[CHOOSE i \in hits : \A j \in hits : i <= j]
               start == max(0, index(lower(line), email) - 1 - 100)
           IN  strip(SubSeq(line, start + 1, min(start + 200, Len(line))))

\* classify_profile(text, email)
classify_profile(text, email) ==
  LET clean_text == collapse(lower(text))
      name == local_part_name(email)
      sen  == bestOf(SENIORITY_KEYWORDS, clean_text, 1,
                     [label |-> "unknown", max |-> 0])
      dep  == bestOf(DEPT_KEYWORDS, clean_text, 1,
                     [label |-> "General", max |-> 0])
  IN  [name |-> name, seniority |-> sen.label, department |-> dep.label,
       confidence |-> confidence(name, sen.label, dep.label, sen.max, dep.max),
       raw_snippet |-> get_snippet(text, email)]

\* the record scrape_page of KingHarvester stores for a page e-mail
KingProfile(text, url, email) ==
  LET ai_data == classify_profile(text, email)
  IN  [email |-> email, name |-> ai_data.name,
       seniority |-> ai_data.seniority, department |-> ai_data.department,
       confidence |-> ai_data.confidence, source_url |-> url,
       context_snippet |-> ai_data.raw_snippet]

\* end of the match of [A-Z][a-z]+ at position i of s, 0 if it does not match
wordEnd(s, i) ==
  IF i + 1 <= Len(s) /\ isUpper(s[i]) /\ isLower(s[i + 1])
  THEN CHOOSE e \in (i + 1)..Len(s) :
         /\ \A j \in (i + 1)..e : isLower(s[j])
         /\ (e = Len(s) \/ ~ isLower(s[e + 1]))
  ELSE 0

\* end of the match of (?:\s+[A-Z][a-z]+)* after position e of s
RECURSIVE wordsEnd(_, _)
wordsEnd(s, e) ==
  LET j == CHOOSE k \in (e + 1)..(Len(s) + 1) :
             /\ \A m \in (e + 1)..(k - 1) : s[m] \in Whitespace
             /\ (k = Len(s) + 1 \/ s[k] \notin Whitespace)
  IN  IF j > e + 1 /\ j <= Len(s) /\ wordEnd(s, j) > 0
      THEN wordsEnd(s, wordEnd(s, j))
      ELSE e

\* re.search(r'([A-Z][a-z]+(?:\s+[A-Z][a-z]+)*)', s): group 1, <<>> if none
capitalized_words(s) ==
  LET starts == { i \in 1..Len(s) : wordEnd(s, i) > 0 }
  IN  IF starts = {} THEN <<>>
      ELSE LET i == CHOOSE k \in starts : \A j \in starts : k <= j
           IN  SubSeq(s, i, wordsEnd(s, wordEnd(s, i)))

\* the alternatives of the role pattern, lower-cased, in the pattern's order
\* (Dr\.? is the two alternatives "dr." and "dr", the longer tried first)
ROLE_PATTERNS ==
  << <<"p","r","o","f","e","s","s","o","r">>,
     <<"d","r",".">>,
     <<"d","r">>,
     <<"l","e","c","t","u","r","e","r">>,
     <<"e","n","g","i","n","e","e","r">>,
     <<"d","i","r","e","c","t","o","r">>,
     <<"m","a","n","a","g","e","r">>,
     <<"h","e","a","d">>,
     <<"c","o","o","r","d","i","n","a","t","o","r">>,
     <<"r","e","s","e","a","r","c","h","e","r">> >>

\* the alternatives of the department pattern, lower-cased
DEPT_PATTERNS ==
  << <<"c","o","m","p","u","t","e","r"," ","s","c","i","e","n","c","e">>,
     <<"e","l","e","c","t","r","i","c","a","l">>,
     <<"m","e","c","h","a","n","i","c","a","l">>,
     <<"c","i","v","i","l">>,
     <<"i","t">>,
     <<"l","i","b","r","a","r","y">>,
     <<"a","d","m","i","s","s","i","o","n","s">> >>

\* re.findall(pattern, s, re.IGNORECASE)[0]: the leftmost match of one of
\* the alternatives, the first alternative that matches there; <<>> if none
first_match(s, pats) ==
  LET low == lower(s)
      at(i) == { k \in 1..Len(pats) :
                   /\ i + Len(pats[k]) - 1 <= Len(s)
                   /\ SubSeq(low, i, i + Len(pats[k]) - 1) = pats[k] }
      pos == { i \in 1..Len(s) : at(i) # {} }
  IN  IF pos = {} THEN <<>>
      ELSE LET i == CHOOSE p \in pos : \A q \in pos : p <= q
               k == CHOOSE a \in at(i) : \A b \in at(i) : a <= b
           IN  SubSeq(s, i, i + Len(pats[k]) - 1)

\* extract_context(text, email); confidence in hundredths
extract_context(text, email) ==
  LET lines == split(text, {"\n"})
      hits  == { i \in 1..Len(lines) : contains(lower(lines[i]), email) }
      none  == [name |-> <<>>, role |-> <<>>, department |-> <<>>,
                confidence |-> 50]
  IN  IF hits = {} THEN none
      ELSE LET i == CHOOSE h \in hits : \A j \in hits : h <= j
               snippet == join(SubSeq(lines, max(1, i - 3),
                                      min(Len(lines), i + 3)), << " " >>)
               name  == capitalized_words(snippet)
               role  == first_match(snippet, ROLE_PATTERNS)
               dept  == first_match(snippet, DEPT_PATTERNS)
               c1 == IF name # <<>> THEN max(50, 80) ELSE 50
               c2 == IF role # <<>> THEN max(c1, 90) ELSE c1
               c3 == IF dept # <<>> THEN max(c2, 85) ELSE c2
           IN  [name |-> name, role |-> role, department |-> dept,
                confidence |-> c3]

\* the record scrape_page of NexusHarvester stores for a page e-mail
NexusProfile(text, url, email) ==
  LET context == extract_context(text, email)
  IN  [name |-> context.name, role |-> context.role,
       department |-> context.department,
       confidence |-> context.confidence, source |-> url]

----------------------------------------------------------------------------
(* The records of one page: scrape_page from "new_emails = ..." to the end  *)
(* of the doc-link loop, for pages made of a few words and one address      *)

\* the longest run of words on a page of the model
MaxWords == 2

ExampleEdu == <<"e","x","a","m","p","l","e",".","e","d","u">>

\* a seed whose host is a subdomain of the organisation's domain
SeedCs == Https \o <<"c","s",".">> \o ExampleEdu \o StaffPath

\* a seed on the organisation's own host, as main() builds it ("www." kept)
SeedWww == Https \o <<"w","w","w",".">> \o ExampleEdu

Seeds == { root_url, SeedCs, SeedWww }

\* what a staff page says next to an address
PageWords ==
  { <<"D","e","a","n">>,
    <<"P","r","o","f","e","s","s","o","r">>,
    <<"L","e","c","t","u","r","e","r">>,
    <<"S","o","f","t","w","a","r","e">>,
    <<"C","i","v","i","l">>,
    <<"V","i","c","e"," "," ","P","r","e","s","i","d","e","n","t">> }

WordRuns == UNION { [1..n -> PageWords] : n \in 0..MaxWords }

\* the staff-page line of the end-to-end scenario, up to the address
JaneSmithLine ==
  << <<"D","r","."," ","J","a","n","e"," ","S","m","i","t","h">>, <<"P","r","o","f","e","s","s","o","r">>, <<"C","o","m","p","u","t","e","r"," ","S","c","i","e","n","c","e">> >>

\* a staff-page line that names one tier twice and the next three times
DeansAndProfessors ==
  << <<"D","e","a","n">>, <<"D","e","a","n">>,
     <<"P","r","o","f","e","s","s","o","r">>,
     <<"P","r","o","f","e","s","s","o","r">>,
     <<"P","r","o","f","e","s","s","o","r">> >>

JaneSmith == <<"j","a","n","e",".","s","m","i","t","h","@">> \o ExampleEdu

BoLee == <<"B","o",".","L","e","e","@">> \o UnivEdu

JDoe == <<"j",".","d","o","e","@">> \o UnivEdu

Info == <<"i","n","f","o","@">> \o UnivEdu

AnnMaryPoe == <<"a","n","n","-","m","a","r","y","_","p","o","e","@">> \o UnivEdu

PageAddresses == { JaneSmith, BoLee, JDoe, Info, AnnMaryPoe }

\* the text of a page: its words, then the address
PageText(ws, address) == join(ws, <<",", " ">>) \o <<" ", "-", " ">> \o address

\* what the e-mail pattern finds in the documents the page links to
DocFinds == { {}, { DocOnly, BoLee } }

\* new_emails of scrape_page and the records made of them
page_records(v, text, url, base, matches) ==
  LET new_emails == extract_and_clean_emails(matches, base)
  IN  [e \in new_emails |->
         IF v = "King" THEN KingProfile(text, url, e)
         ELSE NexusProfile(text, url, e)]

classifyFrame ==
  /\ UNCHANGED <<scopeVars, fetch, doc, disc>>
  /\ UNCHANGED <<variant, crawlpc, queue, tasks, task, visited, documents,
                 pages, browser, launched, fetchCount, enqueued,
                 downloadCount>>

\* "for email in new_emails: if email not in self.profiles: ..."
StorePage ==
  /\ cls.pc = "fetched"
  /\ profiles' = mergeNew(profiles,
                          page_records(variant, cls.text, cls.seed,
                                       base_domain_of(cls.seed), cls.matches))
  /\ cls' = [cls EXCEPT !.pc = "mining"]
  /\ classifyFrame

\* "for email in doc_emails: if email not in self.profiles: ..." for the
\* document the page links to
StoreDoc ==
  /\ cls.pc = "mining"
  /\ LET full_url   == urljoin(cls.seed, HandbookPath)
         found    == extract_emails_from_doc(cls.docs,
                                             base_domain_of(cls.seed))
     IN  profiles' = mergeNew(profiles,
                              [e \in found |->
                                 ProfileFromDoc(variant, full_url, e)])
  /\ cls' = [cls EXCEPT !.pc = "done"]
  /\ classifyFrame

\* the seed page of a King or Nexus harvester has been fetched
InitClassify ==
  /\ \E v \in {"King", "Nexus"} : InitHarvester(v)
  /\ sIn = <<>>
  /\ sBase = <<>>
  /\ sOut = NotAsked
  /\ fetch = NoFetch
  /\ doc = NoDoc
  /\ disc = NoDisc
  /\ \E s \in Seeds, ws \in WordRuns \cup { JaneSmithLine, DeansAndProfessors },
        a \in PageAddresses, d \in DocFinds :
       cls = [pc |-> "fetched", seed |-> s, text |-> PageText(ws, a),
              matches |-> { a }, docs |-> d]

NextClassify ==
  \/ StorePage
  \/ StoreDoc

ClassifySpec == InitClassify /\ [][NextClassify]_vars

----------------------------------------------------------------------------
(* discover_subdomains (KingHarvester, NexusHarvester) in detail: the       *)
(* certificate-transparency lookup, the filter of its entries, the guessed  *)
(* subdomains and the cut to MAX_SUBDOMAINS                                 *)

\* MAX_SUBDOMAINS (30 / 20 in the files), scaled to the guess lists below
MAX_SUBDOMAINS == 4

\* the longest reply of the lookup
MaxEntries == 2

\* tactical_subs (King) and the common subdomains (Nexus): the first names of
\* the lists of 23 and 11
guessed_subs(v) ==
  IF v = "King" THEN { <<"w","w","w">>, <<"m","a","i","l">>, <<"c","s">> }
  ELSE { <<"w","w","w">>, <<"c","s">> }

\* f"https://{sub}.{self.base_domain}" for every guessed name
guessed_urls(v, base) == { Https \o sub \o <<".">> \o base : sub \in guessed_subs(v) }

\* an entry of the reply: a JSON object with or without "name_value", or a
\* JSON value that is no object (entry.get raises)
LibEntry == [kind |-> "object", name_value |-> <<"L","i","b",".","u","n","i","v",".","e","d","u"," ">>]

CertEntries ==
  { [kind |-> "object", name_value |-> <<"c","s",".">> \o UnivEdu],
    [kind |-> "object", name_value |-> <<"*",".">> \o UnivEdu],
    [kind |-> "object", name_value |-> NotUnivEdu],
    LibEntry,
    [kind |-> "object", name_value |-> <<>>],
    [kind |-> "other", name_value |-> <<>>] }

\* what the lookup can come to: the request raises, the status is not 200,
\* the body is no JSON, the JSON is no list, or it is a list of entries
Replies ==
  { [kind |-> k, data |-> <<>>] :
       k \in {"error", "status", "unparseable", "nolist"} }
  \cup { [kind |-> "list", data |-> d] :
           d \in UNION { [1..n -> CertEntries] : n \in 0..MaxEntries } }

\* the lookup failed: network error, non-200 status or unparseable body
LookupFailed(reply) == reply.kind \in {"error", "status", "unparseable"}

\* entry.get('name_value', '').lower(), and .strip() in KingHarvester
cert_name(v, entry) ==
  IF v = "King" THEN strip(lower(entry.name_value))
  ELSE lower(entry.name_value)

\* "name.endswith(self.base_domain) and '*' not in name", after "name and"
\* in KingHarvester
cert_accepts(v, name, base) ==
  /\ v = "King" => name # <<>>
  /\ endswith(name, base)
  /\ \A i \in 1..Len(name) : name[i] # "*"

\* the loop "for entry in data" from entry i on: the URLs added, up to the
\* first entry that raises
RECURSIVE cert_urls(_, _, _, _)
cert_urls(v, data, i, base) ==
  IF i > Len(data) \/ data[i].kind # "object" THEN {}
  ELSE (IF cert_accepts(v, cert_name(v, data[i]), base)
        THEN { Https \o cert_name(v, data[i]) }
        ELSE {})
       \cup cert_urls(v, data, i + 1, base)

\* list(subdomains)[:MAX_SUBDOMAINS]: the set in no particular order, cut
cuts(urls) ==
  { c \in SUBSET urls : Cardinality(c) = min(Cardinality(urls), MAX_SUBDOMAINS) }

\* "except: pass" with the exception passed on to crawl() instead
lookupRaises(d, found, c) == [d EXCEPT !.pc = "raised"]

\* the rest of the call after the try statement: the guessed subdomains are
\* added and the cut c of the set is returned
lookupReturns(d, found, c) ==
  [d EXCEPT !.pc = "returned", !.found = found, !.out = c]

\* the try statement was left by an exception ("except: pass")
lookupExcept(d, found, c) == lookupReturns(d, found, c)

discFrame ==
  /\ UNCHANGED <<scopeVars, fetch, doc, cls>>
  /\ UNCHANGED crawlVars

\* "async with self.session.get(url) as resp": the request raises, answers
\* with another status than 200, or with 200
LookupGet ==
  /\ disc.pc = "start"
  /\ \/ /\ disc.reply.kind = "error"
        /\ \E c \in cuts(guessed_urls(variant, base_domain)) :
             disc' = lookupExcept(disc, {}, c)
     \/ /\ disc.reply.kind = "status"
        /\ \E c \in cuts(guessed_urls(variant, base_domain)) :
             disc' = lookupReturns(disc, {}, c)
     \/ /\ disc.reply.kind \notin {"error", "status"}
        /\ disc' = [disc EXCEPT !.pc = "body"]
  /\ discFrame

\* "data = await resp.json()" and the loop over its entries
LookupJson ==
  /\ disc.pc = "body"
  /\ \/ /\ disc.reply.kind \in {"unparseable", "nolist"}
        /\ \E c \in cuts(guessed_urls(variant, base_domain)) :
             disc' = lookupExcept(disc, {}, c)
     \/ /\ disc.reply.kind = "list"
        /\ LET data  == disc.reply.data
               found == cert_urls(variant, data, 1, base_domain)
               all   == found \cup guessed_urls(variant, base_domain)
           IN  \E c \in cuts(all) :
                 disc' = IF \E i \in 1..Len(data) : data[i].kind # "object"
                         THEN lookupExcept(disc, found, c)
                         ELSE lookupReturns(disc, found, c)
  /\ discFrame

\* crawl() of a King or Nexus harvester calls discover_subdomains
InitDiscover ==
  /\ \E v \in {"King", "Nexus"} : InitHarvester(v)
  /\ sIn = <<>>
  /\ sBase = <<>>
  /\ sOut = NotAsked
  /\ fetch = NoFetch
  /\ doc = NoDoc
  /\ cls = NoCls
  /\ \E r \in Replies : disc = [NoDisc EXCEPT !.pc = "start", !.reply = r]

NextDiscover ==
  \/ LookupGet
  \/ LookupJson

DiscoverSpec == InitDiscover /\ [][NextDiscover]_vars

----------------------------------------------------------------------------
(* Properties *)

\* tasks created and not yet finished
InFlight == { t \in TaskIds : task[t].pc \notin {"free", "done"} }

\* h equals b, or h is some prefix followed by "." and b
EqualsOrDotSuffix(h, b) ==
  h = b \/ \E k \in 0..Len(h) : h = SubSeq(h, 1, k) \o <<".">> \o b

\* the host of URL u: its netloc without "userinfo@" and ":port", lower-cased
hostname(u) ==
  LET h == afterLast(netloc(u), "@")
  IN  lower(SubSeq(h, 1, firstStop(h, 1, {":"}) - 1))

\* C1: in every interleaving of the workers, each URL passes the visited
\* check of scrape_page, and so starts a fetch, at most once, however often it
\* was discovered or queued.
C1_FetchedAtMostOnce == \A u \in DOMAIN fetchCount : fetchCount[u] <= 1

\* two tasks were created for one URL, and it was fetched once
C1_Witness ==
  \E t1 \in tasks : \E t2 \in tasks \ {t1} :
     /\ task[t1].url = task[t2].url
     /\ task[t1].pc = "delay" /\ task[t2].pc = "delay"
     /\ task[t1].url \in DOMAIN fetchCount
     /\ fetchCount[task[t1].url] = 1

\* C2: the page counter never exceeds MAX_PAGES; when crawl() has returned
\* from a site that offered at least MAX_PAGES distinct URLs to the frontier,
\* exactly MAX_PAGES URLs have passed the budget check; and once the counter
\* is at MAX_PAGES the loop of crawl() launches nothing more: its next
\* iteration is the return.
C2_ExactlyMaxPages ==
  /\ pages <= MAX_PAGES
  /\ \A u \in DOMAIN fetchCount : u \in enqueued
  /\ (crawlpc # "run" /\ Cardinality(enqueued) >= MAX_PAGES) => pages = MAX_PAGES
  /\ (crawlpc = "run" /\ pages = MAX_PAGES) =>
        (ENABLED CrawlReturn) /\ ~ (ENABLED CrawlLoop)

\* crawl() returned at the ceiling with more URLs offered than it fetched
C2_Witness ==
  /\ crawlpc = "returned"
  /\ Cardinality(enqueued) > MAX_PAGES
  /\ pages = MAX_PAGES
  /\ queue # <<>>

\* C3 (as claimed): when crawl() returns, no worker task is still running.
C3_DrainedAtReturn == crawlpc = "returned" => InFlight = {}

\* C4: once the store holds a record for an e-mail, no step changes or removes
\* that record (the first writer wins), and the store never holds two records
\* for addresses that differ only in case.
C4_FirstWriterWins ==
  /\ [](\A e1 \in DOMAIN profiles : \A e2 \in DOMAIN profiles :
          lower(e1) = lower(e2) => e1 = e2)
  /\ [][\A e \in DOMAIN profiles :
          e \in DOMAIN profiles' /\ profiles'[e] = profiles[e]]_vars

\* the /staff page recorded jane first, and the handbook, which names her too,
\* was mined afterwards
C4_Witness ==
  /\ variant = "King"
  /\ JaneLow \in DOMAIN profiles
  /\ profiles[JaneLow].source_url = root_url \o StaffPath
  /\ DocOnly \in DOMAIN profiles

\* C5 (as claimed): a link routed to the document set is never also appended
\* to the page frontier.
C5_DocNeverQueued == documents \cap enqueued = {}

\* C6: at most CONCURRENT worker tasks are in flight.
C6_BoundedInFlight == Cardinality(InFlight) <= CONCURRENT

\* the pool is full while the frontier still holds URLs
C6_Witness == Cardinality(InFlight) = CONCURRENT /\ queue # <<>>

\* C7 (as claimed): at most one browser instance is launched during a run.
C7_OneBrowser == launched <= 1

\* C8: the page counter equals the size of the visited set and never exceeds
\* MAX_PAGES.
C8_CounterMatchesVisited == pages = Cardinality(visited) /\ pages <= MAX_PAGES

\* the ceiling is reached and a later task was turned away by the budget check
C8_Witness ==
  /\ pages = MAX_PAGES
  /\ \E t \in tasks : task[t].pc = "delay" /\ task[t].url \notin visited

\* C9: every key of the record store is a lower-cased address whose domain
\* part, after the last "@", is the base domain or ends with "." + base domain.
C9_KeysInScope ==
  \A e \in DOMAIN profiles :
     /\ lower(e) = e
     /\ \E i \in 1..Len(e) :
          /\ e[i] = "@"
          /\ \A j \in (i+1)..Len(e) : e[j] # "@"
          /\ EqualsOrDotSuffix(SubSeq(e, i + 1, Len(e)), base_domain)

\* the store holds addresses from a page (written in mixed case there), from a
\* subdomain and from a document
C9_Witness ==
  /\ variant = "Nexus"
  /\ {JaneLow, AlCs, DocOnly} \subseteq DOMAIN profiles

\* the store of the harvester that de-obfuscates holds a bracketed and a
\* spelled-out address
C9_WitnessDeob ==
  /\ variant = "Elite"
  /\ {lower(StaffDeob), AlCs} \subseteq DOMAIN profiles
  /\ CsUrl \notin visited

\* C10: the scope filter is exact.  As a host rule it answers true iff the
\* (lower-cased) host equals the base domain or ends with "." + base domain;
\* for an e-mail it applies that rule to the lower-cased part after the last
\* "@", and answers false when there is no "@".
C10_ScopeExact ==
  sOut.asked =>
    /\ sOut.host <=> EqualsOrDotSuffix(lower(sIn), sBase)
    /\ IF \A i \in 1..Len(sIn) : sIn[i] # "@"
       THEN sOut.email = FALSE
       ELSE \E i \in 1..Len(sIn) :
              /\ sIn[i] = "@"
              /\ \A j \in (i+1)..Len(sIn) : sIn[j] # "@"
              /\ sOut.email <=>
                   EqualsOrDotSuffix(lower(SubSeq(sIn, i + 1, Len(sIn))), sBase)
    /\ (sIn = AdminUnivEdu /\ sBase = UnivEdu) => sOut.host
    /\ (sIn = NotUnivEdu /\ sBase = UnivEdu) => ~ sOut.host

\* an address with two "@" and an upper-case subdomain of the base was accepted
C10_Witness ==
  /\ sOut.asked
  /\ sOut.email
  /\ sIn = <<"@", "@", "U", ".", "e">>
  /\ sBase = <<"e">>

\* C11: every URL on the page frontier that link discovery put there has a
\* host that is the base domain or ends with "." + base domain, and is either
\* an absolute http(s) href of a fetched page, taken as it stands, or a
\* root-relative href of a fetched page placed behind that page's scheme (and,
\* unless the href names its own host with "//", behind that page's host);
\* hrefs of any other form put nothing on the frontier.
C11_FrontierInScope ==
  \A u \in enqueued \ Range(start_urls(variant)) :
     /\ EqualsOrDotSuffix(hostname(u), base_domain)
     /\ \E p \in visited : \E i \in 1..Len(Html(p).hrefs) :
          LET raw == Html(p).hrefs[i]
          IN  \/ (startswith(raw, Http) \/ startswith(raw, Https)) /\ u = raw
              \/ /\ startswith(raw, <<"/">>) /\ ~ startswith(raw, <<"/","/">>)
                 /\ u = SubSeq(p, 1, schemeLen(p)) \o netloc(p) \o raw
              \/ /\ startswith(raw, <<"/","/">>)
                 /\ u = SubSeq(p, 1, schemeLen(p) - 2) \o raw

\* the subdomain's page was mined: its root-relative link is on the frontier
\* under the subdomain's host, and its links to another host, with a port and
\* without a leading slash are not
C11_Witness ==
  /\ CsUrl \o AboutPath \in enqueued
  /\ \E t \in tasks : task[t].url = CsUrl /\ task[t].pc = "delay"
  /\ \A u \in enqueued : hostname(u) # NotUnivEdu

\* C12 (as claimed): in the harvester with two tiers, once the fast path has
\* returned, the heavy path has been invoked if and only if the fast path's
\* content is empty, or contains a noscript tag, or contains the phrase
\* "enable JavaScript".
C12_EscalatesIffShell ==
  (variant = "Elite" /\ fetch.pc \notin {"none", "start", "static", "static_sleep"})
    => (("dynamic" \in Range(fetch.calls)) <=>
          \/ fetch.static = <<>>
          \/ contains(fetch.static, Noscript)
          \/ contains(fetch.static, EnableJavaScript))

\* C13 (as claimed): in every harvester the first tier a fetch invokes is the
\* plain HTTP GET, and the rendering engine is invoked only after it.
C13_FastPathFirst ==
  fetch.calls # <<>> => Head(fetch.calls) = "static"

\* C14 (as claimed): no exception leaves the fetch function.
C14_FetchNeverRaises == fetch.pc # "raised"

\* C16 (as claimed): when the fetch function has returned or raised, every
\* browsing context it created is closed.
C16_NoContextOutlivesFetch ==
  fetch.pc \in {"returned", "raised"} => fetch.ctx = {}

\* C15: a fetch that yields empty content is a soft skip.  The step in which
\* a worker learns that its html is empty, and every later step of that
\* worker, adds no record, no document-set entry and no frontier entry and
\* leaves the visited set and the page counter alone; its URL stays visited
\* and counted once (so it is never fetched again); and crawl()'s loop stays
\* ready to dispatch whatever the frontier holds while there is budget.
C15_SoftSkip ==
  /\ [](\A t \in TaskIds : task[t].skipped =>
          /\ task[t].pc \in {"delay", "done"}
          /\ task[t].url \in visited
          /\ fetchCount[task[t].url] = 1
          /\ pages >= 1
          /\ (crawlpc = "run" /\ queue # <<>> /\ HasCapacity(tasks)
                /\ pages < MAX_PAGES) => ENABLED CrawlLoop)
  /\ [][\A t \in TaskIds :
          (task'[t].skipped /\ task'[t] # task[t]) \/
          (task[t].skipped /\ task'[t] # task[t])
            => /\ profiles' = profiles /\ documents' = documents
               /\ queue' = queue /\ enqueued' = enqueued
               /\ visited' = visited /\ pages' = pages]_vars

\* the fetch of the root came back empty and its worker finished; the crawl
\* went on and recorded addresses from the other pages up to the ceiling
C15_Witness ==
  /\ \E t \in tasks : /\ task[t].url = root_url
                       /\ task[t].skipped /\ task[t].pc = "done"
  /\ pages = MAX_PAGES
  /\ DOMAIN profiles # {}
  /\ enqueued = Range(start_urls(variant))

\* C17: in every interleaving of the workers, the download of each document
\* URL is started at most once, even when pages that are processed
\* concurrently link to the same document; and no document is in the
\* document set without its download having been started.
C17_DownloadedAtMostOnce ==
  /\ \A d \in DOMAIN downloadCount : downloadCount[d] <= 1
  /\ documents = DOMAIN downloadCount

\* two workers hold pages that both link to the handbook: one is downloading
\* it, the other has gone past its doc links without a download
C17_Witness ==
  \E t1 \in tasks : \E t2 \in tasks :
     /\ task[t1].url = root_url /\ task[t1].pc = "downloading"
     /\ task[t2].url = root_url \o StaffPath /\ task[t2].pc = "delay"
     /\ ~ task[t2].skipped
     /\ root_url \o StaffPath \in visited
     /\ fetchCount[root_url \o StaffPath] = 1
     /\ queue = <<>>
     /\ downloadCount[root_url \o HandbookPath] = 1

\* C18 (as claimed): no failure while a document is mined raises out of the
\* worker: the doc-link loop always goes on to its next document or to link
\* discovery.
C18_MiningNeverRaises == doc.pc # "raised"

\* C19 (as claimed): a scratch file exists only for the document whose body
\* is being awaited; once the miner has finished with a document URL, by
\* success or by failure, its scratch file no longer exists.
C19_ScratchRemoved ==
  \A u \in doc.files : doc.pc = "read" /\ u = doc.cur

\* C20: crawl() always terminates.  With the finite page ceiling, and with
\* every sleep of the loop and every fetch, download and sleep of a worker
\* eventually returning (weak fairness on the loop and on each worker),
\* crawl() eventually returns.
C20_CrawlTerminates == <>(crawlpc # "run")

\* crawl() returned because the frontier drained and the last worker finished,
\* with budget left
C20_Witness ==
  /\ crawlpc = "returned"
  /\ pages < MAX_PAGES
  /\ queue = <<>>
  /\ tasks = {}

\* C21: crawl() returns with the page counter below MAX_PAGES only when the
\* frontier is empty and no worker is in flight (the task set is empty); and
\* while there is budget and the frontier holds a URL or a task is still in
\* the task set, the loop cannot return.  A worker that ended with an
\* exception leaves the task set like any other.
C21_NoEarlyStop ==
  /\ (crawlpc # "run" /\ pages < MAX_PAGES) =>
        (queue = <<>> /\ tasks = {} /\ InFlight = {})
  /\ (crawlpc = "run" /\ pages < MAX_PAGES /\ (queue # <<>> \/ tasks # {})) =>
        ~ (ENABLED CrawlReturn)
  /\ \A t \in TaskIds :
       (task[t].pc = "done" /\ crawlpc # "closed") => ENABLED Discard(t)

\* both workers of the Elite harvester ended with the exception of a failed
\* browser launch (no browser, nothing recorded); the frontier drained, their
\* slots were freed and crawl() returned below the ceiling
C21_Witness ==
  /\ variant = "Elite"
  /\ crawlpc = "returned"
  /\ browser = 0
  /\ DOMAIN profiles = {}
  /\ pages = Len(start_urls("Elite")) /\ pages < MAX_PAGES
  /\ queue = <<>> /\ tasks = {}

\* the e-mails of the page under classification that scrape_page accepts
PageAccepted ==
  extract_and_clean_emails(cls.matches, base_domain_of(cls.seed))

\* C22: every record made of a page e-mail by classify_profile or
\* extract_context has a confidence between 0.30 and 0.95 (30..95 hundredths)
\* whatever name, seniority, department and keyword hits were found, and
\* every record of the store, the document-derived ones included, has a
\* confidence between 0 and 1.
C22_ConfidenceBounds ==
  /\ \A e \in DOMAIN profiles : profiles[e].confidence \in 0..100
  /\ cls.pc \in {"mining", "done"} =>
       \A e \in PageAccepted :
          /\ e \in DOMAIN profiles
          /\ profiles[e].confidence \in 30..95

\* a King page whose record adds up to the cap, beside a document record
C22_Witness ==
  /\ variant = "King"
  /\ cls.pc = "done"
  /\ \E e \in PageAccepted :
       /\ profiles[e].confidence = 95
       /\ profiles[e].name # <<>>
       /\ profiles[e].seniority # "unknown"
       /\ profiles[e].department # "General"
  /\ \E e \in DOMAIN profiles \ PageAccepted : profiles[e].confidence = 40

\* the page of the end-to-end scenario has been scraped by KingHarvester
\* started on seed
ScenarioDone(seed) ==
  /\ variant = "King"
  /\ cls.pc = "done"
  /\ cls.seed = seed
  /\ cls.text = PageText(JaneSmithLine, JaneSmith)

\* the record the scenario expects
ScenarioRecord ==
  /\ JaneSmith \in DOMAIN profiles
  /\ profiles[JaneSmith].name = <<"J","a","n","e"," ","S","m","i","t","h">>
  /\ profiles[JaneSmith].seniority = "senior"
  /\ profiles[JaneSmith].department = "Computer Science"
  /\ profiles[JaneSmith].confidence >= 80

\* C23: a crawl seeded with https://cs.example.edu/staff whose page reads
\* "Dr. Jane Smith, Professor, Computer Science - jane.smith@example.edu"
\* ends with a record for jane.smith@example.edu that has name "Jane Smith",
\* seniority "senior", department "Computer Science" and confidence >= 0.8.
C23_ScenarioRecord == ScenarioDone(SeedCs) => ScenarioRecord

\* the same page under a seed on the organisation's own host
C23_OnOwnHost == ScenarioDone(SeedWww) => ScenarioRecord

\* the pieces of the local part of email between '.', '_' and '-'
LocalTokens(email) == split(split(email, {"@"})[1], {".", "_", "-"})

\* at least two pieces, each longer than one character
TwoLongTokens(email) ==
  /\ Len(LocalTokens(email)) >= 2
  /\ \A i \in 1..Len(LocalTokens(email)) : Len(LocalTokens(email)[i]) > 1

\* the first two pieces, capitalised, joined by a blank
FirstTwoCapitalised(email) ==
  capitalize(LocalTokens(email)[1]) \o << " " >>
     \o capitalize(LocalTokens(email)[2])

\* the name rule for the records of the page, in the harvesters vs
NameFromLocalPart(vs) ==
  (variant \in vs /\ cls.pc \in {"mining", "done"}) =>
     \A e \in PageAccepted :
        TwoLongTokens(e) =>
           /\ e \in DOMAIN profiles
           /\ profiles[e].name # <<>>
           /\ profiles[e].name = FirstTwoCapitalised(e)

\* C25: in every harvester that stores a name, the record of an accepted
\* page e-mail whose local part splits on '.', '_', '-' into at least two
\* pieces, each longer than one character, has a non-empty name: the first
\* two pieces, capitalised, joined by a blank.
C25_NameFromLocalPart == NameFromLocalPart({"King", "Nexus"})

\* the rule in KingHarvester alone
C25_KingAlone == NameFromLocalPart({"King"})

\* discover_subdomains has returned after a failed lookup
FailedLookupReturned == disc.pc = "returned" /\ LookupFailed(disc.reply)

\* C24 (as stated): when the certificate-transparency lookup fails,
\* discover_subdomains returns an empty list.
C24_FailedLookupEmpty == FailedLookupReturned => disc.out = {}

\* C24 (amended): when the certificate-transparency lookup fails (network
\* error, non-200 status, unparseable body), discover_subdomains raises
\* nothing and returns the guessed subdomains and nothing else: no URL that
\* comes from the lookup.
C24_FailedLookupSoft ==
  /\ disc.pc # "raised"
  /\ FailedLookupReturned =>
       /\ disc.found = {}
       /\ disc.out = guessed_urls(variant, base_domain)

\* the body of a 200 reply could not be parsed, and the call has returned
C24_Witness ==
  /\ FailedLookupReturned
  /\ disc.reply.kind = "unparseable"
  /\ disc.out # {}

\* the scheduler creates the worker task t in this step
Launched(t) == task[t].pc # "new" /\ task'[t].pc = "new"

\* C26: a frontier entry is consumed once: the scheduler launches a worker
\* for a URL at most once in a run, so never for a URL that is in the
\* Visited Set and never for a URL that another worker already holds.
C26_ConsumedOnce ==
  [][\A t \in TaskIds :
       Launched(t) =>
         /\ task'[t].url \notin visited
         /\ \A t2 \in tasks \ {t} : task[t2].url # task'[t].url]_vars

\* the politeness sleep of worker t completes in this step
SleepCompletes(t) == task[t].pc = "delay" /\ task'[t].pc = "done"

\* C27: a worker's politeness delay comes before its enqueueing: the
\* frontier grows only in a step of a worker whose randomized sleep has
\* completed, never before or during the sleep.
C27_DelayBeforeEnqueue ==
  [][Len(queue') > Len(queue) => \E t \in TaskIds : SleepCompletes(t)]_vars

\* how session.get of fetch_static can end
GetOutcomes == {"200", "403", "500", "exception"}

\* the positions of the GET requests in the log of the fetch
Gets == { i \in DOMAIN fetch.log : fetch.log[i] \in GetOutcomes }

\* fetch_static has returned to scrape_page
StaticOver ==
  "static" \in Range(fetch.calls) /\ fetch.pc \notin {"static", "static_sleep"}

C29_RetriedOnceAfter403 ==
  \A i \in Gets :
     fetch.log[i] = "403" =>
        /\ i < Len(fetch.log) => fetch.log[i + 1] = "sleep5"
        /\ Cardinality({ j \in Gets : j > i }) <= 1

\* the backoff alone: a 403 or 429 is followed by the sleep of 5 seconds
C29_LongerBackoff ==
  \A i \in Gets :
     (fetch.log[i] = "403" /\ i < Len(fetch.log)) => fetch.log[i + 1] = "sleep5"

\* the positions of the navigation attempts (page.goto) in the log
Navs == { i \in DOMAIN fetch.log : fetch.log[i] \in {"goto", "goto_failed"} }

\* the positions at which an attempt of the heavy path failed
NavFailures ==
  { i \in DOMAIN fetch.log : fetch.log[i] \in {"goto_failed", "content_failed"} }

\* the retry rule of the heavy path, in the harvesters vs
HeavyRetriesOnce(vs) ==
  variant \in vs =>
    /\ Cardinality(Navs) <= 2
    /\ fetch.pc = "returned" =>
         /\ Cardinality(Navs) = 2 <=> NavFailures # {}
         /\ Cardinality(Navs) = 2 =>
              \E f \in NavFailures : \E k \in DOMAIN fetch.log : \E n \in Navs :
                 f < k /\ k < n /\ fetch.log[k] = "sleep"
         /\ Cardinality(NavFailures) = 2 => fetch.html = <<>>

\* C30: the heavy path retries once on failure: a second navigation attempt
\* is made for the URL if and only if the first attempt failed, with a sleep
\* between the two, never a third, and the empty string is returned when
\* both fail; in fetch_with_evasion of KingHarvester and NexusHarvester and
\* in fetch_dynamic of EliteHarvester.
C30_HeavyRetriesOnce == HeavyRetriesOnce({"King", "Nexus", "Elite"})

\* the rule in the two fetch_with_evasion alone
C30_EvasionAlone == HeavyRetriesOnce({"King", "Nexus"})

\* clean_text of classify_profile for the page under classification
PageClean == collapse(lower(cls.text))

\* the score of entry i of a keyword table on the page
EntryScore(table, i) == score(table[i].keywords, PageClean)

\* the entries of the table with the highest score on the page
TopEntries(table) ==
  { i \in 1..Len(table) :
      \A j \in 1..Len(table) : EntryScore(table, j) <= EntryScore(table, i) }

\* label is what the rule picks from the table: the earliest entry with the
\* highest score, or the default when every entry scores zero
PickedByRule(table, label, default) ==
  LET first == CHOOSE i \in TopEntries(table) :
                  \A j \in TopEntries(table) : i <= j
  IN  /\ label = (IF EntryScore(table, first) = 0 THEN default
                  ELSE table[first].label)
      /\ label = default <=>
           \A i \in 1..Len(table) : EntryScore(table, i) = 0

\* KingHarvester has stored the records of the page
KingStored == variant = "King" /\ cls.pc \in {"mining", "done"}

\* C31: in classify_profile the seniority is the tier with the highest score,
\* the earliest in the order executive, senior, mid, junior when several tie,
\* and "unknown" if and only if every tier scores zero; the department is
\* chosen by the same rule over the department table, with "General" if and
\* only if every department scores zero.
C31_EarliestBestTier ==
  KingStored =>
    \A e \in PageAccepted :
       /\ PickedByRule(SENIORITY_KEYWORDS, profiles[e].seniority, "unknown")
       /\ PickedByRule(DEPT_KEYWORDS, profiles[e].department, "General")

\* a page on which executive and senior tie, and two departments tie
C31_Witness ==
  /\ KingStored
  /\ EntryScore(SENIORITY_KEYWORDS, 1) = EntryScore(SENIORITY_KEYWORDS, 2)
  /\ EntryScore(SENIORITY_KEYWORDS, 1) > 0
  /\ Cardinality(TopEntries(DEPT_KEYWORDS)) >= 2
  /\ \E e \in PageAccepted :
       /\ profiles[e].seniority = "executive"
       /\ profiles[e].department # "General"

\* the number of places of s at which sub occurs
occurrences(s, sub) ==
  Cardinality({ i \in 1..(Len(s) - Len(sub) + 1) :
                  SubSeq(s, i, i + Len(sub) - 1) = sub })

\* the occurrences on the page of the keywords of entry i of a table, from
\* keyword k on
RECURSIVE OccurrenceScore(_, _, _)
OccurrenceScore(table, i, k) ==
  IF k > Len(table[i].keywords) THEN 0
  ELSE occurrences(PageClean, table[i].keywords[k])
         + OccurrenceScore(table, i, k + 1)

\* the entries of the table with the most keyword occurrences on the page
TopByOccurrences(table) ==
  { i \in 1..Len(table) :
      \A j \in 1..Len(table) :
         OccurrenceScore(table, j, 1) <= OccurrenceScore(table, i, 1) }

\* label is the earliest entry with the most keyword occurrences, or the
\* default when no keyword of the table occurs
PickedByOccurrences(table, label, default) ==
  LET first == CHOOSE i \in TopByOccurrences(table) :
                  \A j \in TopByOccurrences(table) : i <= j
  IN  label = (IF OccurrenceScore(table, first, 1) = 0 THEN default
               ELSE table[first].label)

\* C32: in classify_profile the score of a seniority tier, and of a
\* department, is the number of occurrences of its keywords in the
\* lower-cased text, a keyword that occurs k times counting k: the tier and
\* the department stored are those with the most occurrences, so a tier whose
\* keyword occurs three times wins over one whose keyword occurs twice.
C32_CountsOccurrences ==
  KingStored =>
    \A e \in PageAccepted :
       /\ PickedByOccurrences(SENIORITY_KEYWORDS, profiles[e].seniority,
                              "unknown")
       /\ PickedByOccurrences(DEPT_KEYWORDS, profiles[e].department,
                              "General")

\* C33: every URL the crawler requests, the certificate-transparency lookup
\* apart, has a host equal to the base domain or ending in "." + base
\* domain; in particular every seed that discover_subdomains returns, which
\* crawl() puts on its deque and fetches.
C33_SeedsInScope ==
  disc.pc = "returned" =>
     \A u \in disc.out : EqualsOrDotSuffix(hostname(u), base_domain)

\* the guessed subdomains alone are in scope
C33_GuessesInScope ==
  \A v \in {"King", "Nexus"} : \A u \in guessed_urls(v, base_domain) :
     EqualsOrDotSuffix(hostname(u), base_domain)

\* C34: in scrape_page of EliteHarvester non-empty content of the fast path
\* is never thrown away: when the fast path gave non-empty content and the
\* heavy path was tried and failed, the html from which e-mails and links
\* are extracted is the fast-path content.
C34_FastContentKept ==
  (variant = "Elite" /\ fetch.pc = "returned" /\ fetch.static # <<>>) =>
     fetch.html \in { fetch.static, Rendered }

============================================================================
